---- MODULE Spec2Model ----
(***************************************************************************)
(* Model of app/main.py: the graph cache, the periodic refresher task, the *)
(* GET /graph and POST /node handlers, and the Neo4j store they talk to.   *)
(*                                                                         *)
(* The process is a single asyncio event loop: a task runs without         *)
(* interruption from one `await` to the next, so every action below is the *)
(* code between two awaits of one task.                                    *)
(***************************************************************************)
EXTENDS Integers, Sequences, FiniteSets, TLC

\* ---------------------------------------------------------------- bounds
MaxNodes == 2          \* nodes the store ever holds
MaxReq == 2            \* POST /node requests over a run
MaxRefresh == 2        \* refresh cycles the periodic task starts

\* ---------------------------------------------------------------- inputs
UUIDs == {"u1", "u2"}                  \* uuids POST /node is called with
OtherUUIDs == {"u1", "u2", "u3"}       \* uuids other clients of the store use
Names == {"n1", "n2"}
NoHeader == "<no header>"               \* request without X-API-Key
HeaderValues == {NoHeader, "k1", "k2"}
\* read_secret returns the file's content, or None when the file is missing
SecretValues == {"k1", "None"}

\* How the store answers one HTTP call:
\*   ok        a well-formed transaction result
\*   fail      no answer, or a body that is not JSON: post()/json() raises
\*   noresults a JSON object without a non-empty "results" list
\*             (Neo4j's own error answer: {"results": [], "errors": [...]})
\*   malformed JSON of another shape (not an object, or rows that are not
\*             objects): the code's .get()/index raises on it
Kinds == {"ok", "fail", "noresults", "malformed"}

Reply(kind, data) == [kind |-> kind, data |-> data]
NoData == Reply("none", <<>>)

EmptyCache == [nodes |-> <<>>, edges |-> <<>>]
\* awaited: history, whether the periodic task was awaiting the store when
\* the answer was built; fresh: history, whether the last refresh that had
\* ended by then had two good answers
NoResp == [status |-> 0, body |-> EmptyCache, awaited |-> FALSE, fresh |-> FALSE]
NoId == 0 - 1          \* no id: the store has not answered with one
\* calls: history, the store calls made for the answered request
NoPostResp == [status |-> 0, id |-> NoId, header |-> NoHeader, calls |-> 0]
UnknownId == -2        \* the string "unknown" where an id is expected

\* the graphs closure(uuid) is asked about: three nodes, any set of BUILDS_ON
\* relationships between them (loops and cycles included), and possibly a
\* relationship of another type; UnknownUUID is the UUID of no node
ClosureUUIDs == {"A", "B", "C"}
UnknownUUID == "zz"
BuildsOnEdges ==
    {[from |-> x, to |-> y, type |-> "BUILDS_ON"] : x, y \in ClosureUUIDs}
OtherEdges == {[from |-> "A", to |-> "C", type |-> "RELATED"]}
ClosureGraphs == {b \cup o : b \in SUBSET BuildsOnEdges, o \in SUBSET OtherEdges}
\* no call of closure yet
NoWalk == [pc |-> "idle", graph |-> {}, uuid |-> UnknownUUID, visited |-> {},
           todo |-> {}, steps |-> 0, status |-> 0, builds_on |-> <<>>]

VARIABLES
    API_KEY,       \* the write token read at import time
    db_nodes,      \* the store: sequence of nodes, index - 1 is the node id
    db_edges,      \* the store: sequence of relationships
    graph_cache,   \* the global Cache object
    task_pc,       \* where periodic_update_task stands
    nodes_data,    \* update_graph_cache's local, once the node query answered
    cycle,         \* number of refresh cycles started
    reqs,          \* the POST /node requests
    get_resp,      \* the last answer of GET /graph
    post_resp,     \* the last answer of POST /node
    store_calls,   \* history: HTTP calls sent to the store so far
    written_by,    \* history: the cycle that last assigned each cache list
    last_ok,       \* history: the last refresh that ended had two good answers
    store_ok,      \* history: the store has answered some call well
    walk           \* the closure(uuid) call in progress

vars == <<API_KEY, db_nodes, db_edges, graph_cache, task_pc, nodes_data, cycle,
          reqs, get_resp, post_resp, store_calls, written_by, last_ok,
          store_ok, walk>>

\* the state of the API of main.py
app_vars == <<API_KEY, db_nodes, db_edges, graph_cache, task_pc, nodes_data, cycle,
              reqs, get_resp, post_resp, store_calls, written_by, last_ok,
              store_ok>>

\* ------------------------------------------------------------- the store
\* MATCH (n) RETURN {node: n} AS node: one entry per node, with its meta
NodeEntry(n) ==
    [row |-> <<[node |-> [uuid |-> n.uuid, name |-> n.name, repo_link |-> n.repo_link]]>>,
     meta |-> <<[id |-> n.id, deleted |-> n.deleted]>>]

NodeQueryResult == [i \in 1..Len(db_nodes) |-> NodeEntry(db_nodes[i])]

\* MATCH (source)-[r]->(target) RETURN {from:, type:, to:} AS edge
EdgeEntry(e) ==
    [row |-> <<[from |-> e.from, type |-> e.type, to |-> e.to]>>,
     meta |-> <<>>]

EdgeQueryResult == [i \in 1..Len(db_edges) |-> EdgeEntry(db_edges[i])]

\* CREATE (n:Topic {name:, uuid:, repo_link:}) RETURN id(n): always a new node
CypherCreate(nodes, name, uuid, repo_link) ==
    Append(nodes, [id |-> Len(nodes), uuid |-> uuid, name |-> name,
                   repo_link |-> repo_link, deleted |-> FALSE])

\* ------------------------------------------------- update_graph_cache
\* mutant: the deleted flag is not looked at
NodeDeleted_Ignored(entry) ==
    FALSE

\* meta_entry = meta[0] if meta and len(meta) > 0 else {};  .get("deleted", False)
NodeDeleted(entry) ==
    IF Len(entry.meta) > 0 THEN entry.meta[1].deleted ELSE FALSE

\* the dict appended to new_nodes for one entry
NodeView(entry) ==
    [id |-> IF Len(entry.meta) > 0 THEN entry.meta[1].id ELSE UnknownId,
     uuid |-> IF Len(entry.row) > 0 THEN entry.row[1].node.uuid ELSE "unknown",
     label |-> IF Len(entry.row) > 0 THEN entry.row[1].node.name ELSE "unknown",
     repo_link |-> IF Len(entry.row) > 0 THEN entry.row[1].node.repo_link ELSE "unknown"]

\* lines 170-185: new_nodes from nodes_data; {} and a missing or empty
\* "results" give the empty list
ProcessNodes(reply) ==
    IF reply.kind = "ok"
    THEN LET live == SelectSeq(reply.data, LAMBDA e : ~NodeDeleted(e))
         IN  [i \in 1..Len(live) |-> NodeView(live[i])]
    ELSE <<>>

\* any(m and m.get("deleted", False) for m in meta)
EdgeDeleted(entry) ==
    \E i \in 1..Len(entry.meta) : entry.meta[i].deleted

EdgeView(entry) ==
    [from |-> entry.row[1].from, to |-> entry.row[1].to,
     label |-> entry.row[1].type, arrows |-> "to"]

\* lines 189-204: new_edges from edges_data
ProcessEdges(reply) ==
    IF reply.kind = "ok"
    THEN LET kept == SelectSeq(reply.data,
                               LAMBDA e : ~EdgeDeleted(e) /\ Len(e.row) > 0)
         IN  [i \in 1..Len(kept) |-> EdgeView(kept[i])]
    ELSE <<>>

\* lines 169-206, the code after the second await, run on the two answers.
\* raised: an exception left the function; a malformed node answer raises at
\* line 171 before anything is assigned, a malformed edge answer at line 190,
\* after graph_cache.nodes was assigned at line 186.
Rebuild(cache, nd, ed) ==
    IF nd.kind = "malformed"
    THEN [cache |-> cache, raised |-> TRUE, nodes_set |-> FALSE, edges_set |-> FALSE]
    ELSE IF ed.kind = "malformed"
    THEN [cache |-> [cache EXCEPT !.nodes = ProcessNodes(nd)],
          raised |-> TRUE, nodes_set |-> TRUE, edges_set |-> FALSE]
    ELSE [cache |-> [nodes |-> ProcessNodes(nd), edges |-> ProcessEdges(ed)],
          raised |-> FALSE, nodes_set |-> TRUE, edges_set |-> TRUE]

\* ------------------------------------------------------------- initial
\* a request: new (not yet sent), await (create_node awaits the store),
\* closed (answered; the handler and its new_node are gone)
NewReq == [pc |-> "new", header |-> NoHeader, name |-> "n1", uuid |-> "u1",
           calls |-> 0]
ClosedReq == [NewReq EXCEPT !.pc = "closed"]

Init ==
    /\ API_KEY \in SecretValues
    /\ db_nodes = <<>>
    /\ db_edges = <<>>
    /\ graph_cache = EmptyCache
    /\ task_pc = "not_started"
    /\ nodes_data = NoData
    /\ cycle = 0
    /\ reqs = [r \in 1..MaxReq |-> NewReq]
    /\ get_resp = NoResp
    /\ post_resp = NoPostResp
    /\ store_calls = 0
    /\ written_by = [nodes |-> 0, edges |-> 0]
    /\ last_ok = FALSE
    /\ store_ok = FALSE
    /\ walk = NoWalk

\* ------------------------------------------------ the periodic task
\* startup_event: asyncio.create_task(periodic_update_task())
Startup ==
    /\ task_pc = "not_started"
    /\ task_pc' = "created"
    /\ UNCHANGED <<API_KEY, db_nodes, db_edges, graph_cache, nodes_data, cycle,
                   reqs, get_resp, post_resp, store_calls, written_by, last_ok,
                   store_ok, walk>>

\* periodic_update_task enters update_graph_cache (first run, or the sleep
\* of 60 s is over) and awaits the answer to the node query
BeginRefresh ==
    /\ task_pc \in {"created", "sleep"}
    /\ cycle < MaxRefresh
    /\ task_pc' = "await_nodes"
    /\ cycle' = cycle + 1
    /\ store_calls' = store_calls + 1
    /\ UNCHANGED <<API_KEY, db_nodes, db_edges, graph_cache, nodes_data,
                   reqs, get_resp, post_resp, written_by, last_ok,
                   store_ok, walk>>

\* the node query is answered (or raises); the edge query is sent
NodesAnswer(kind) ==
    /\ task_pc = "await_nodes"
    /\ nodes_data' = Reply(kind, IF kind = "ok" THEN NodeQueryResult ELSE <<>>)
    /\ task_pc' = "await_edges"
    /\ store_calls' = store_calls + 1
    /\ UNCHANGED <<API_KEY, db_nodes, db_edges, graph_cache, cycle,
                   reqs, get_resp, post_resp, written_by, last_ok,
                   walk>>
    /\ store_ok' = (store_ok \/ kind = "ok")

\* the edge query is answered (or raises); both lists are rebuilt and
\* assigned with no await in between; an exception that leaves
\* update_graph_cache also leaves the `while True` of periodic_update_task
EdgesAnswer(kind) ==
    /\ task_pc = "await_edges"
    /\ LET edges_data == Reply(kind, IF kind = "ok" THEN EdgeQueryResult ELSE <<>>)
           out == Rebuild(graph_cache, nodes_data, edges_data)
       IN  /\ graph_cache' = out.cache
           /\ task_pc' = IF out.raised THEN "dead" ELSE "sleep"
           /\ written_by' = [nodes |-> IF out.nodes_set THEN cycle ELSE written_by.nodes,
                             edges |-> IF out.edges_set THEN cycle ELSE written_by.edges]
           /\ last_ok' = (nodes_data.kind = "ok" /\ kind = "ok")
    /\ nodes_data' = NoData
    /\ UNCHANGED <<API_KEY, db_nodes, db_edges, cycle, reqs, get_resp, post_resp,
                   store_calls,
                   walk>>
    /\ store_ok' = (store_ok \/ kind = "ok")

\* ------------------------------------------------------- GET /graph
TaskAwaits == task_pc \in {"await_nodes", "await_edges"}

\* mutant: the handler queries the store instead of serving the cache
GetGraph_Live ==
    /\ task_pc # "not_started"
    /\ store_calls' = store_calls + 1
    /\ get_resp' = [status |-> 200, awaited |-> TaskAwaits, fresh |-> last_ok,
                    body |-> [nodes |-> ProcessNodes(Reply("ok", NodeQueryResult)),
                              edges |-> ProcessEdges(Reply("ok", EdgeQueryResult))]]
    /\ UNCHANGED <<API_KEY, db_nodes, db_edges, graph_cache, task_pc, nodes_data,
                   cycle, reqs, post_resp, written_by, last_ok,
                   store_ok, walk>>

\* mutant: an empty snapshot is answered as an error
GetGraph_EmptyIsError ==
    /\ task_pc # "not_started"
    /\ get_resp' = [status |-> IF graph_cache = EmptyCache THEN 500 ELSE 200,
                    body |-> graph_cache, awaited |-> TaskAwaits, fresh |-> last_ok]
    /\ UNCHANGED <<API_KEY, db_nodes, db_edges, graph_cache, task_pc, nodes_data,
                   cycle, reqs, post_resp, store_calls, written_by, last_ok,
                   store_ok, walk>>

\* get_graph: JSONResponse(content=graph_cache.dict()); no await
GetGraph ==
    /\ task_pc # "not_started"
    /\ get_resp' = [status |-> 200, body |-> graph_cache, awaited |-> TaskAwaits,
                    fresh |-> last_ok]
    /\ UNCHANGED <<API_KEY, db_nodes, db_edges, graph_cache, task_pc, nodes_data,
                   cycle, reqs, post_resp, store_calls, written_by, last_ok,
                   store_ok, walk>>

\* ------------------------------------------------------- POST /node
\* APIKeyHeader(name="X-API-Key", auto_error=True): a request without the
\* header is refused by the framework before verify_api_key runs. The
\* status is the framework's own: 403 in the FastAPI releases that still
\* have pydantic's .dict() and on_event in use, 401 in later ones.
MissingHeaderStatus == {401, 403}

\* mutant: the comparison is inverted
VerifyApiKey_Inverted(api_key) ==
    IF api_key = API_KEY THEN 401 ELSE 0

\* verify_api_key: the status it raises, 0 when it lets the request pass
VerifyApiKey(api_key) ==
    IF api_key # API_KEY THEN 401 ELSE 0

\* dependencies=[Depends(verify_api_key)]: api_key_header, then verify_api_key
Authorize(header) ==
    IF header = NoHeader THEN MissingHeaderStatus ELSE {VerifyApiKey(header)}

\* a request arrives: the dependencies, then create_node up to its await
\* (line 265, the one client.post of the handler)
PostNode(r, header, name, uuid) ==
    /\ task_pc # "not_started"
    /\ reqs[r].pc = "new"
    /\ \A q \in 1..(r - 1) : reqs[q].pc # "new"
    /\ \E st \in Authorize(header) :
         IF st # 0
         THEN /\ reqs' = [reqs EXCEPT ![r] = ClosedReq]
              /\ post_resp' = [status |-> st, id |-> NoId, header |-> header,
                               calls |-> 0]
              /\ UNCHANGED store_calls
         ELSE /\ reqs' = [reqs EXCEPT ![r] =
                            [pc |-> "await", header |-> header, name |-> name,
                             uuid |-> uuid, calls |-> 1]]
              /\ store_calls' = store_calls + 1
              /\ UNCHANGED post_resp
    /\ UNCHANGED <<API_KEY, db_nodes, db_edges, graph_cache, task_pc, nodes_data,
                   cycle, get_resp, written_by, last_ok,
                   store_ok, walk>>

\* mutant: the exception is swallowed and the handler answers 200
CreateStatus_Swallowed(kind) ==
    200

\* lines 268-274: the answer read as data["results"][0]["data"][0]["row"][0];
\* every exception inside the try becomes HTTPException(500), nothing is retried
CreateStatus(kind) ==
    IF kind = "ok" THEN 200 ELSE 500

\* mutant: the handler also appends the node it created to the cache
CreateAnswer_WriteThrough(r, kind) ==
    /\ reqs[r].pc = "await"
    /\ IF kind = "ok"
       THEN /\ Len(db_nodes) < MaxNodes
            /\ db_nodes' = CypherCreate(db_nodes, reqs[r].name, reqs[r].uuid, "r1")
            /\ graph_cache' = [graph_cache EXCEPT !.nodes =
                                 Append(@, [id |-> Len(db_nodes), uuid |-> reqs[r].uuid,
                                            label |-> reqs[r].name, repo_link |-> "r1"])]
       ELSE UNCHANGED <<db_nodes, graph_cache>>
    /\ post_resp' = [status |-> CreateStatus(kind),
                     id |-> IF kind = "ok" THEN Len(db_nodes) ELSE NoId,
                     header |-> reqs[r].header, calls |-> reqs[r].calls]
    /\ reqs' = [reqs EXCEPT ![r] = ClosedReq]
    /\ UNCHANGED <<API_KEY, db_edges, task_pc, nodes_data, cycle,
                   get_resp, store_calls, written_by, last_ok,
                   walk>>
    /\ store_ok' = (store_ok \/ kind = "ok")

\* the store answers the CREATE statement (or the call raises); the handler
\* answers with the new id or with 500
CreateAnswer(r, kind) ==
    /\ reqs[r].pc = "await"
    /\ IF kind = "ok"
       THEN /\ Len(db_nodes) < MaxNodes
            /\ db_nodes' = CypherCreate(db_nodes, reqs[r].name, reqs[r].uuid, "r1")
       ELSE UNCHANGED db_nodes
    /\ post_resp' = [status |-> CreateStatus(kind),
                     id |-> IF kind = "ok" THEN Len(db_nodes) ELSE NoId,
                     header |-> reqs[r].header, calls |-> reqs[r].calls]
    /\ reqs' = [reqs EXCEPT ![r] = ClosedReq]
    /\ UNCHANGED <<API_KEY, db_edges, graph_cache, task_pc, nodes_data, cycle,
                   get_resp, store_calls, written_by, last_ok,
                   walk>>
    /\ store_ok' = (store_ok \/ kind = "ok")

\* ------------------------------------------- other clients of the store
\* The store is a shared database (NEO4J_URL): the relationships the edge
\* query returns are written by others. One transaction of another client
\* creates a node, alone or with a BUILDS_ON relationship to a live node.
OtherWrite(uuid, name, target) ==
    /\ Len(db_nodes) < MaxNodes
    /\ \A i \in 1..Len(db_nodes) : db_nodes[i].uuid # uuid
    /\ db_nodes' = CypherCreate(db_nodes, name, uuid, "r1")
    /\ IF target = NoId
       THEN UNCHANGED db_edges
       ELSE /\ target < Len(db_nodes)
            /\ ~db_nodes[target + 1].deleted
            /\ db_edges' = Append(db_edges, [from |-> Len(db_nodes), to |-> target,
                                             type |-> "BUILDS_ON"])
    /\ UNCHANGED <<API_KEY, graph_cache, task_pc, nodes_data, cycle, reqs,
                   get_resp, post_resp, store_calls, written_by, last_ok,
                   store_ok, walk>>

\* a node without relationships is marked deleted in the store's metadata
OtherDelete(id) ==
    /\ id < Len(db_nodes)
    /\ ~db_nodes[id + 1].deleted
    /\ \A i \in 1..Len(db_edges) : db_edges[i].from # id /\ db_edges[i].to # id
    /\ db_nodes' = [db_nodes EXCEPT ![id + 1].deleted = TRUE]
    /\ UNCHANGED <<API_KEY, db_edges, graph_cache, task_pc, nodes_data, cycle, reqs,
                   get_resp, post_resp, store_calls, written_by, last_ok,
                   store_ok, walk>>

\* ------------------------------------------------ the dependency resolver
\* the direct BUILDS_ON targets of u; relationships of other types do not
\* take part
BuildsOn(graph, u) ==
    {e.to : e \in {x \in graph : x.from = u /\ x.type = "BUILDS_ON"}}

\* a set as a list, in some order
RECURSIVE SetToSeq(_)
SetToSeq(S) ==
    IF S = {} THEN <<>>
    ELSE LET x == CHOOSE y \in S : TRUE IN <<x>> \o SetToSeq(S \ {x})

\* closure(uuid) is called on a graph: the traversal starts at uuid with
\* uuid as the only visited UUID
ClosureCall(graph, uuid) ==
    /\ walk.pc = "idle"
    /\ walk' = [pc |-> "walking", graph |-> graph, uuid |-> uuid,
                visited |-> {uuid}, todo |-> {uuid}, steps |-> 0,
                status |-> 0, builds_on |-> <<>>]
    /\ UNCHANGED app_vars

\* mutant: no visited set, every target is expanded and listed again
ClosureVisit_NoVisitedSet(u) ==
    /\ walk.pc = "walking"
    /\ u \in walk.todo
    /\ LET found == BuildsOn(walk.graph, u)
       IN  walk' = [walk EXCEPT !.visited = @ \cup found,
                                !.todo = (@ \ {u}) \cup found,
                                !.builds_on = @ \o SetToSeq(found \ {walk.uuid}),
                                !.steps = @ + 1]
    /\ UNCHANGED app_vars

\* one UUID is expanded: its direct targets that were not visited before
\* are listed and remain to be expanded; a visited UUID is terminal
ClosureVisit(u) ==
    /\ walk.pc = "walking"
    /\ u \in walk.todo
    /\ LET found == BuildsOn(walk.graph, u) \ walk.visited
       IN  walk' = [walk EXCEPT !.visited = @ \cup found,
                                !.todo = (@ \ {u}) \cup found,
                                !.builds_on = @ \o SetToSeq(found),
                                !.steps = @ + 1]
    /\ UNCHANGED app_vars

\* nothing is left to expand: the list is the answer, also when it is empty
ClosureReturn ==
    /\ walk.pc = "walking"
    /\ walk.todo = {}
    /\ walk' = [walk EXCEPT !.pc = "done", !.status = 200]
    /\ UNCHANGED app_vars

ClosureStep ==
    \/ \E u \in ClosureUUIDs \cup {UnknownUUID} : ClosureVisit(u)
    \/ ClosureReturn

\* ---------------------------------------------------------------- next
Refresher ==
    \/ Startup
    \/ BeginRefresh
    \/ \E kind \in Kinds : NodesAnswer(kind)
    \/ \E kind \in Kinds : EdgesAnswer(kind)

Writers ==
    \/ \E r \in 1..MaxReq, h \in HeaderValues, n \in Names, u \in UUIDs :
          PostNode(r, h, n, u)
    \/ \E r \in 1..MaxReq, kind \in Kinds : CreateAnswer(r, kind)

Others ==
    \/ \E u \in OtherUUIDs, t \in {NoId} \cup (0..(MaxNodes - 1)) : OtherWrite(u, "n1", t)
    \/ \E id \in 0..(MaxNodes - 1) : OtherDelete(id)

\* the whole system
Next == Refresher \/ GetGraph \/ Writers \/ Others
Spec == Init /\ [][Next]_vars

\* the read side: the refresher and GET /graph over a store that only other
\* clients write
NextRefresh == Refresher \/ GetGraph \/ Others
SpecRefresh == Init /\ [][NextRefresh]_vars

\* the write side: the refresher, GET /graph and POST /node over a store
\* that only POST /node writes
NextWrite == Refresher \/ GetGraph \/ Writers
SpecWrite == Init /\ [][NextWrite]_vars

\* the dependency resolver alone, asked once about any graph and any UUID
NextClosure ==
    \/ \E g \in ClosureGraphs, u \in ClosureUUIDs \cup {UnknownUUID} : ClosureCall(g, u)
    \/ ClosureStep
SpecClosure == Init /\ [][NextClosure]_vars

\* ============================================================== claims
NodeIds(cache) == {cache.nodes[i].id : i \in 1..Len(cache.nodes)}
\* a step in which GET /graph was answered
GraphAnswered == get_resp' # get_resp

\* a step in which a refresh ended
RefreshEnded == task_pc = "await_edges" /\ task_pc' # "await_edges"

\* C1: when the node query or the edge query of a refresh fails, the previous
\* snapshot is retained unmodified: a refresh that ends without two good
\* answers leaves both lists of graph_cache as they were, and GET /graph
\* answers with exactly those lists.
C1_FailedRefreshKeepsSnapshot ==
    [][/\ (RefreshEnded /\ ~last_ok') => graph_cache' = graph_cache
       /\ GraphAnswered => get_resp'.body = graph_cache]_vars

\* C2: a read of the snapshot never sees the node list of one refresh next
\* to the edge list of another: whenever GET /graph is answered, both lists
\* of the cache were assigned by the same refresh cycle.
C2_ReadSeesOneRefresh ==
    [][GraphAnswered => written_by.nodes = written_by.edges]_vars

\* C3: no refresh cycle ends the periodic task, whatever the store answered:
\* the task is never dead.
C3_TaskNeverDies ==
    task_pc # "dead"

\* C4: create_node is an upsert by UUID: the store never holds two nodes
\* with the same UUID.
C4_OneNodePerUUID ==
    \A i, j \in 1..Len(db_nodes) :
        db_nodes[i].uuid = db_nodes[j].uuid => i = j

\* the last POST /node answer went to a request without the write token
Refused == post_resp.status # 0 /\ post_resp.header # API_KEY
\* the header request r arrived with, in the step in which it arrives
ArrivedWith(r) ==
    IF reqs'[r].pc = "await" THEN reqs'[r].header ELSE post_resp'.header

C6_SnapshotEdgesHaveEndpoints ==
    last_ok =>
        \A i \in 1..Len(graph_cache.edges) :
            /\ graph_cache.edges[i].from \in NodeIds(graph_cache)
            /\ graph_cache.edges[i].to \in NodeIds(graph_cache)

\* C7: only the refresher writes the snapshot: a step in which POST /node
\* advances (request sent to the store, or answered with success or
\* failure) or GET /graph is answered leaves graph_cache as it was and
\* neither starts nor advances a refresh.
C7_HandlersLeaveSnapshot ==
    [][(reqs' # reqs \/ post_resp' # post_resp \/ GraphAnswered)
          => /\ graph_cache' = graph_cache
             /\ task_pc' = task_pc
             /\ cycle' = cycle
             /\ nodes_data' = nodes_data]_vars

\* a filled snapshot, a create that succeeded (only POST /node writes the
\* store here), one that failed, and a read
C7_Witness ==
    /\ graph_cache.nodes # <<>>
    /\ get_resp.status = 200
    /\ db_nodes # <<>>
    /\ post_resp.status = 500

\* C8: GET /graph never waits for the store: once the server runs it can be
\* answered in every state, in one step, with the current snapshot and
\* without a call to the store, also while the refresher awaits the store.
C8_ReadNeverCallsStore ==
    /\ [](task_pc # "not_started" => ENABLED GetGraph)
    /\ [][GraphAnswered
            => /\ store_calls' = store_calls
               /\ get_resp'.status = 200
               /\ get_resp'.body = graph_cache
               /\ task_pc' = task_pc]_vars

\* a read answered while the refresher awaited the store, from a filled cache
C8_Witness ==
    /\ get_resp.awaited
    /\ get_resp.body.nodes # <<>>

\* C9: a store failure during create_node is answered 500 without a retry:
\* the step in which the store's answer arrives ends the request, after
\* exactly one store call, with 500 and no id when no node was created and
\* 200 with the new id otherwise; it sends nothing more to the store and
\* changes neither another request nor the periodic task.
C9_StoreFailureIs500 ==
    [][\A r \in 1..MaxReq :
         (reqs[r].pc = "await" /\ reqs'[r] # reqs[r])
            => /\ reqs'[r].pc = "closed"
               /\ post_resp'.calls = 1
               /\ store_calls' = store_calls
               /\ IF db_nodes' = db_nodes
                  THEN post_resp'.status = 500 /\ post_resp'.id = NoId
                  ELSE post_resp'.status = 200 /\ post_resp'.id = Len(db_nodes)
               /\ \A q \in 1..MaxReq \ {r} : reqs'[q] = reqs[q]
               /\ task_pc' = task_pc
               /\ cycle' = cycle
               /\ graph_cache' = graph_cache]_vars

\* a create answered 500 while another request and a refresh are in flight
C9_Witness ==
    /\ TaskAwaits
    /\ post_resp.status = 500
    /\ \E q \in 1..MaxReq : reqs[q].pc = "await"

\* C10: a refresh whose node query was answered well builds the node list
\* from exactly the rows without the deleted flag: no node of the new list
\* has the id of a row marked deleted, and every unmarked row is in it with
\* its uuid and name.
C10_DeletedRowsExcluded ==
    [][(task_pc = "await_edges" /\ written_by'.nodes # written_by.nodes
            /\ nodes_data.kind = "ok")
          => \A i \in 1..Len(nodes_data.data) :
               LET entry == nodes_data.data[i]
                   m == entry.meta[1]
                   n == entry.row[1].node
               IN  IF m.deleted
                   THEN m.id \notin NodeIds(graph_cache')
                   ELSE \E k \in 1..Len(graph_cache'.nodes) :
                          /\ graph_cache'.nodes[k].id = m.id
                          /\ graph_cache'.nodes[k].uuid = n.uuid
                          /\ graph_cache'.nodes[k].label = n.name]_vars

\* a snapshot that holds a later node of the store but not an earlier one,
\* which is marked deleted: the refresh saw both rows and dropped one
C10_Witness ==
    \E i, j \in 1..Len(db_nodes) :
        /\ i < j
        /\ db_nodes[i].deleted
        /\ db_nodes[i].id \notin NodeIds(graph_cache)
        /\ db_nodes[j].id \in NodeIds(graph_cache)

\* GET /graph is answered before the first refresh has ended
BeforeFirstRefreshEnds == cycle = 0 \/ (cycle = 1 /\ TaskAwaits)
\* the last refresh that ended had two good answers and the store holds
\* nothing (it never shrinks, so it held nothing when it was queried)
AfterRefreshOfEmptyStore == last_ok /\ db_nodes = <<>> /\ db_edges = <<>>

\* C11: the snapshot is empty from process start until the first refresh
\* ends, and GET /graph does not fail on an empty graph: answered before the
\* first refresh has ended, or after a refresh with two good answers from a
\* store without nodes and edges, it is a 200 with an empty node list and
\* an empty edge list.
C11_EmptyGraphIsServed ==
    /\ [](BeforeFirstRefreshEnds => graph_cache = EmptyCache)
    /\ [][(GraphAnswered /\ (BeforeFirstRefreshEnds \/ AfterRefreshOfEmptyStore))
            => /\ get_resp'.status = 200
               /\ get_resp'.body = EmptyCache]_vars

\* a read answered with empty lists after a good refresh of the empty store
C11_Witness ==
    /\ get_resp.status = 200
    /\ get_resp.fresh
    /\ get_resp.body = EmptyCache
    /\ db_nodes = <<>>

\* the API has taken a request: GET /graph was answered, or a POST /node
\* request was answered or has entered its handler
RequestServed ==
    \/ get_resp.status # 0
    \/ post_resp.status # 0
    \/ \E r \in 1..MaxReq : reqs[r].pc # "new"

\* C12: startup is gated on store readiness: no GET /graph and no POST /node
\* request is served before the store has answered a call well.
C12_NoTrafficBeforeStoreAnswers ==
    RequestServed => store_ok

\* the UUIDs other than uuid to which a path of BUILDS_ON relationships
\* leads from uuid
ReachableFrom(graph, uuid) ==
    LET U == ClosureUUIDs \cup {UnknownUUID}
        Path(p) == /\ p[1] = uuid
                   /\ \A i \in 1..(Len(p) - 1) : p[i + 1] \in BuildsOn(graph, p[i])
    IN  {v \in U \ {uuid} :
           \E n \in 2..Cardinality(U) : \E p \in [1..n -> U] : Path(p) /\ p[n] = v}

\* C13: on every graph, cyclic ones included, closure(uuid) terminates: a
\* call in progress can always take its next step and has expanded no UUID
\* twice; what it returns is a success with a list without repetitions
\* that holds exactly the UUIDs reachable from uuid over BUILDS_ON
\* relationships, without uuid itself, and the empty list for a UUID of
\* no node.
C13_ClosureTerminates ==
    /\ walk.pc = "walking" =>
          /\ ENABLED ClosureStep
          /\ walk.steps + Cardinality(walk.todo) <= Cardinality(walk.visited)
          /\ Cardinality(walk.visited) <= Cardinality(ClosureUUIDs) + 1
    /\ walk.pc = "done" =>
          /\ walk.status = 200
          /\ \A i, j \in 1..Len(walk.builds_on) :
                walk.builds_on[i] = walk.builds_on[j] => i = j
          /\ {walk.builds_on[i] : i \in 1..Len(walk.builds_on)}
                = ReachableFrom(walk.graph, walk.uuid)
          /\ walk.uuid = UnknownUUID => walk.builds_on = <<>>

\* closure("A") returned B and C on a graph with the cycle A, B, C, A
C13_Witness ==
    /\ walk.pc = "done"
    /\ walk.uuid = "A"
    /\ {[from |-> "A", to |-> "B", type |-> "BUILDS_ON"],
        [from |-> "B", to |-> "C", type |-> "BUILDS_ON"],
        [from |-> "C", to |-> "A", type |-> "BUILDS_ON"]} \subseteq walk.graph
    /\ Len(walk.builds_on) = 2

====
